---- MODULE Spec2Model ----
(***************************************************************************)
(* Model of src/app.py: the crop service.                                  *)
(*   - crop_bounding_box        (clamp a box to the image and crop)        *)
(*   - remove_overlapping_boxes (greedy overlap suppression)               *)
(*   - detect_windows_advanced / detect_objects (detector fallback)        *)
(*   - process_single_image     (per-image crop batch)                     *)
(*   - crop_image               (job loop and report)                      *)
(* Text is modelled as a sequence of one-character strings so that the     *)
(* character-wise label sanitising and the f-string filename can be        *)
(* computed the way the code computes them.                                *)
(***************************************************************************)
EXTENDS Integers, Sequences, FiniteSets, TLC

VARIABLES
    request,          \* CropRequest: image_urls, bounding_boxes, use_detection, detect_windows_only
    cv2_available,    \* whether "import cv2" succeeds in detect_windows_advanced
    yolo_available,   \* whether "from ultralytics import YOLO" succeeds in detect_objects
    pc,               \* position of the request handler
    idx,              \* crop_image: enumerate index over image_urls (0-based)
    image,            \* process_single_image: the downloaded image (width, height)
    bounding_boxes,   \* process_single_image: the resolved box list
    bidx,             \* process_single_image: enumerate index over bounding_boxes (0-based)
    window_count,     \* process_single_image: window_count
    saved_files,      \* process_single_image: saved_files
    errors,           \* process_single_image: errors
    all_saved_files,  \* crop_image: all_saved_files
    all_errors,       \* crop_image: all_errors
    response,         \* what the handler returned (JSON report or HTTP error)
    calls,            \* detectors invoked for the current image, in call order
    download_log,     \* outcome of download_image per image position, in order
    arg,              \* argument of the pure function under test
    ret,              \* its result
    fpc               \* position of the pure-function harness

vars == <<request, cv2_available, yolo_available, pc, idx, image, bounding_boxes,
          bidx, window_count, saved_files, errors, all_saved_files, all_errors,
          response, calls, download_log, arg, ret, fpc>>

jobvars == <<request, cv2_available, yolo_available, pc, idx, image, bounding_boxes,
             bidx, window_count, saved_files, errors, all_saved_files, all_errors,
             response, calls, download_log>>

fnvars == <<arg, ret, fpc>>

----------------------------------------------------------------------------
(* Bounds *)

MaxImages == 2       \* most image URLs in one request
MaxBoxes == 2        \* longest request.bounding_boxes
MaxDetections == 1   \* most contours / model detections reported for one image
MaxNmsBoxes == 3     \* longest input list of remove_overlapping_boxes
MaxSide == 3         \* largest side of the small images the clamp is tried on
MaxOff == 2          \* how far a clamp input may start left of / above the image

----------------------------------------------------------------------------
(* Generic helpers *)

Max(a, b) == IF a >= b THEN a ELSE b

Min(a, b) == IF a <= b THEN a ELSE b

Range(s) == {s[i] : i \in 1..Len(s)}

SeqsUpTo(S, n) == UNION {[1..k -> S] : k \in 0..n}

----------------------------------------------------------------------------
(* Text: str as a sequence of characters *)

LowerChars == <<"a","b","c","d","e","f","g","h","i","j","k","l","m",
                "n","o","p","q","r","s","t","u","v","w","x","y","z">>

UpperChars == <<"A","B","C","D","E","F","G","H","I","J","K","L","M",
                "N","O","P","Q","R","S","T","U","V","W","X","Y","Z">>

DigitChars == <<"0","1","2","3","4","5","6","7","8","9">>

\* str.isalnum() on one (ASCII) character
isalnum(c) == c \in Range(LowerChars) \cup Range(UpperChars) \cup Range(DigitChars)

\* str.lower()
lower(s) ==
    [i \in 1..Len(s) |->
        IF s[i] \in Range(UpperChars)
        THEN LowerChars[CHOOSE k \in 1..26 : UpperChars[k] = s[i]]
        ELSE s[i]]

\* the "in" operator on strings: sub occurs in s
contains(s, sub) ==
    \E i \in 1..(Len(s) - Len(sub) + 1) : SubSeq(s, i, i + Len(sub) - 1) = sub

\* f"{n}" for n >= 0
RECURSIVE fmt_int(_)
fmt_int(n) ==
    IF n < 10 THEN <<DigitChars[n + 1]>>
    ELSE fmt_int(n \div 10) \o <<DigitChars[(n % 10) + 1]>>

\* f"{n:03d}" for n >= 0
fmt_03d(n) ==
    LET d == fmt_int(n)
    IN  IF Len(d) >= 3 THEN d
        ELSE [i \in 1..(3 - Len(d)) |-> "0"] \o d

WINDOW == <<"w","i","n","d","o","w">>

NoLabel == <<>>      \* label None (or ""), both falsy in "bbox.label or ..."

----------------------------------------------------------------------------
(* Geometry: crop_bounding_box *)

BoundingBox(x, y, width, height, label) ==
    [x |-> x, y |-> y, width |-> width, height |-> height, label |-> label]

\* The clamp of crop_bounding_box with the far edge measured from the
\* original x, y: what is left is the part of the box inside the image.
crop_bounding_box_intersect(img, bbox) ==
    LET x == Max(0, bbox.x)
        y == Max(0, bbox.y)
        width == Min(bbox.x + bbox.width, img.width) - x
        height == Min(bbox.y + bbox.height, img.height) - y
    IN  IF width <= 0 \/ height <= 0
        THEN [ok |-> FALSE, x |-> x, y |-> y, width |-> width, height |-> height]
        ELSE [ok |-> TRUE, x |-> x, y |-> y, width |-> width, height |-> height]

\* The clamp of crop_bounding_box without the "- x": the width is cut to the
\* image's width, not to what is left of it right of x.
crop_bounding_box_nosub(img, bbox) ==
    LET x == Max(0, bbox.x)
        y == Max(0, bbox.y)
        width == Min(bbox.width, img.width)
        height == Min(bbox.height, img.height)
    IN  IF width <= 0 \/ height <= 0
        THEN [ok |-> FALSE, x |-> x, y |-> y, width |-> width, height |-> height]
        ELSE [ok |-> TRUE, x |-> x, y |-> y, width |-> width, height |-> height]

\* crop_bounding_box without the "width <= 0 or height <= 0" rejection.
crop_bounding_box_noreject(img, bbox) ==
    LET x == Max(0, bbox.x)
        y == Max(0, bbox.y)
        width == Min(bbox.width, img.width - x)
        height == Min(bbox.height, img.height - y)
    IN  [ok |-> TRUE, x |-> x, y |-> y, width |-> width, height |-> height]

\* crop_bounding_box: ok = FALSE is the raised HTTPException(400); otherwise
\* x, y, width, height is the rectangle handed to image.crop, whose result
\* has exactly that width and height.
crop_bounding_box(img, bbox) ==
    LET x == Max(0, bbox.x)
        y == Max(0, bbox.y)
        width == Min(bbox.width, img.width - x)
        height == Min(bbox.height, img.height - y)
    IN  IF width <= 0 \/ height <= 0
        THEN [ok |-> FALSE, x |-> x, y |-> y, width |-> width, height |-> height]
        ELSE [ok |-> TRUE, x |-> x, y |-> y, width |-> width, height |-> height]

----------------------------------------------------------------------------
(* Overlap suppressor: remove_overlapping_boxes *)

box_area(box) == box.width * box.height

\* Insertion that puts b BEFORE the boxes of equal area: ties come out in
\* reverse input order (an unstable sort).
RECURSIVE insert_by_area_unstable(_, _)
insert_by_area_unstable(sorted, b) ==
    IF sorted = <<>> THEN <<b>>
    ELSE IF box_area(Head(sorted)) > box_area(b)
         THEN <<Head(sorted)>> \o insert_by_area_unstable(Tail(sorted), b)
         ELSE <<b>> \o sorted

\* One insertion of list.sort(key=area, reverse=True): b goes after every
\* box whose area is >= its own (the sort is stable, also with reverse=True).
RECURSIVE insert_by_area(_, _)
insert_by_area(sorted, b) ==
    IF sorted = <<>> THEN <<b>>
    ELSE IF box_area(Head(sorted)) >= box_area(b)
         THEN <<Head(sorted)>> \o insert_by_area(Tail(sorted), b)
         ELSE <<b>> \o sorted

\* boxes_with_area.sort(key=lambda x: x[1], reverse=True)
RECURSIVE sort_by_area(_)
sort_by_area(boxes) ==
    IF boxes = <<>> THEN <<>>
    ELSE insert_by_area(sort_by_area(SubSeq(boxes, 1, Len(boxes) - 1)),
                        boxes[Len(boxes)])

\* The body of the inner loop: iou > overlap_threshold for one existing box.
\* The threshold is the rational thr[1] / thr[2] with thr[2] > 0, and
\* intersection / union > thr[1] / thr[2] is compared cross-multiplied.
iou_exceeds(box, existing_box, thr) ==
    LET x1 == Max(box.x, existing_box.x)
        y1 == Max(box.y, existing_box.y)
        x2 == Min(box.x + box.width, existing_box.x + existing_box.width)
        y2 == Min(box.y + box.height, existing_box.y + existing_box.height)
    IN  IF x2 > x1 /\ y2 > y1
        THEN LET intersection == (x2 - x1) * (y2 - y1)
                 area1 == box.width * box.height
                 area2 == existing_box.width * existing_box.height
                 union == area1 + area2 - intersection
             IN  IF union > 0
                 THEN intersection * thr[2] > thr[1] * union
                 ELSE 0 > thr[1]
        ELSE FALSE

\* is_overlapping that looks only at the first accepted box.
is_overlapping_first_only(box, filtered, thr) ==
    filtered # <<>> /\ iou_exceeds(box, filtered[1], thr)

\* is_overlapping after the inner loop over filtered
is_overlapping(box, filtered, thr) ==
    \E i \in 1..Len(filtered) : iou_exceeds(box, filtered[i], thr)

\* the outer loop over the sorted boxes, from the boxes still to visit
RECURSIVE filter_boxes(_, _, _)
filter_boxes(todo, filtered, thr) ==
    IF todo = <<>> THEN filtered
    ELSE filter_boxes(Tail(todo),
                      IF is_overlapping(Head(todo), filtered, thr)
                      THEN filtered
                      ELSE Append(filtered, Head(todo)),
                      thr)

remove_overlapping_boxes(boxes, overlap_threshold) ==
    IF boxes = <<>> THEN boxes
    ELSE filter_boxes(sort_by_area(boxes), <<>>, overlap_threshold)

----------------------------------------------------------------------------
(* Detectors: detect_windows_advanced and detect_objects *)

\* The contour loop of detect_windows_advanced. A contour is what OpenCV
\* reports of it: contourArea, boundingRect (x, y, w, h) and the number of
\* vertices of approxPolyDP. min_area = img_area * 0.005 and
\* max_area = img_area * 0.9 are compared cross-multiplied.
contour_is_window(img, contour) ==
    LET img_area == img.width * img.height
    IN  /\ img_area * 5 <= contour.area * 1000
        /\ contour.area * 10 <= img_area * 9
        /\ contour.h > 0
        /\ 3 * contour.h <= 10 * contour.w
        /\ contour.w <= 3 * contour.h
        /\ contour.vertices >= 4

contour_boxes(img, contours) ==
    LET kept == SelectSeq(contours, LAMBDA c : contour_is_window(img, c))
    IN  [i \in 1..Len(kept) |->
            BoundingBox(kept[i].x, kept[i].y, kept[i].w, kept[i].h, WINDOW)]

\* detect_windows_advanced: [] when cv2 cannot be imported, otherwise the
\* surviving contours' boxes after overlap suppression at 0.5.
detect_windows_advanced(img, available, contours) ==
    IF ~available THEN <<>>
    ELSE remove_overlapping_boxes(contour_boxes(img, contours), <<1, 2>>)

\* The windows_only filter of detect_objects on one model detection.
yolo_is_window(img, det) ==
    LET area == det.width * det.height
        img_area == img.width * img.height
    IN  /\ det.height > 0
        /\ 3 * det.height <= 10 * det.width
        /\ det.width <= 3 * det.height
        /\ area * 1000 > img_area * 5
        /\ area * 10 < img_area * 9

\* The result loop of detect_objects over the model's detections.
yolo_boxes(img, detections, windows_only) ==
    IF windows_only
    THEN LET kept == SelectSeq(detections, LAMBDA d : yolo_is_window(img, d))
         IN  [i \in 1..Len(kept) |->
                BoundingBox(kept[i].x, kept[i].y, kept[i].width, kept[i].height, WINDOW)]
    ELSE detections

\* "if bounding_boxes:" in detect_objects always taking the fallback.
found_windows_never(boxes) == FALSE

\* "if bounding_boxes:" in detect_objects: the primitive detector's boxes
\* are returned when there is at least one.
found_windows(boxes) == boxes # <<>>

----------------------------------------------------------------------------
(* Crop batch: naming of one artifact in process_single_image *)

RECURSIVE Str(_)
Str(cs) == IF cs = <<>> THEN "" ELSE Head(cs) \o Str(Tail(cs))

\* label = bbox.label or f"crop_{idx+1}"
raw_label(bbox, i) ==
    IF bbox.label # NoLabel THEN bbox.label
    ELSE <<"c","r","o","p","_">> \o fmt_int(i + 1)

\* "window" in label.lower() or request.detect_windows_only
is_window_label(bbox, i, windows_only) ==
    contains(lower(raw_label(bbox, i)), WINDOW) \/ windows_only

\* window_count after the box's label is chosen
next_window_count(bbox, i, windows_only, count) ==
    IF is_window_label(bbox, i, windows_only) THEN count + 1 ELSE count

\* label as finally assigned
crop_label(bbox, i, windows_only, count) ==
    IF is_window_label(bbox, i, windows_only)
    THEN <<"w","i","n","d","o","w","_">> \o fmt_int(count + 1)
    ELSE raw_label(bbox, i)

\* safe_label: every character that is not alphanumeric, '-' or '_' becomes '_'
safe_label(label) ==
    [k \in 1..Len(label) |->
        IF isalnum(label[k]) \/ label[k] \in {"-", "_"} THEN label[k] ELSE "_"]

\* crop_filename that never embeds the image index.
crop_filename_noindex(image_index, i, label) ==
    fmt_03d(i + 1) \o <<"_">> \o safe_label(label) \o <<".","j","p","g">>

\* filename of box i (0-based) of image image_index (0-based)
crop_filename(image_index, i, label) ==
    IF image_index > 0
    THEN <<"i","m","g">> \o fmt_int(image_index + 1) \o <<"_">> \o fmt_03d(i + 1)
         \o <<"_">> \o safe_label(label) \o <<".","j","p","g">>
    ELSE fmt_03d(i + 1) \o <<"_">> \o safe_label(label) \o <<".","j","p","g">>

\* the dict appended to saved_files
artifact(url, image_index, i, bbox, cropped, label) ==
    [filename |-> Str(crop_filename(image_index, i, label)),
     label |-> Str(label),
     source_image |-> url,
     image_index |-> image_index + 1,
     dimensions |-> [width |-> cropped.width, height |-> cropped.height],
     bbox |-> [x |-> bbox.x, y |-> bbox.y, width |-> bbox.width, height |-> bbox.height]]

\* an entry of errors: the kind of message and the 1-based positions it names
\* (box = 0 when the message names no box)
error(kind, image_index, box) ==
    [kind |-> kind, image |-> image_index + 1, box |-> box]

----------------------------------------------------------------------------
(* Inputs of a job *)

NONE == "None"

NoImage == [width |-> 0, height |-> 0]

\* the image a download yields
ImageSizes == {[width |-> 100, height |-> 100]}

\* boxes a caller can put in request.bounding_boxes
ExplicitBoxes ==
    {BoundingBox(10, 10, 50, 50, NoLabel),
     BoundingBox(-5, -5, 20, 20, NoLabel),
     BoundingBox(90, 90, 20, 20, <<"W","i","n","d","o","w"," ","A">>),
     BoundingBox(120, 10, 5, 5, <<"a","/","b">>)}

\* contours findContours can report
Contours ==
    {[area |-> 2000, x |-> 10, y |-> 10, w |-> 50, h |-> 40, vertices |-> 4],
     [area |-> 1900, x |-> 12, y |-> 12, w |-> 50, h |-> 40, vertices |-> 6],
     [area |-> 20, x |-> 0, y |-> 0, w |-> 5, h |-> 4, vertices |-> 4],
     [area |-> 600, x |-> 70, y |-> 5, w |-> 10, h |-> 60, vertices |-> 3]}

\* detections the model can report (already converted to x, y, width, height)
Detections ==
    {BoundingBox(20, 20, 30, 30, <<"p","e","r","s","o","n">>),
     BoundingBox(0, 0, 100, 100, <<"t","v">>),
     BoundingBox(5, 5, 90, 10, <<"b","e","n","c","h">>)}

UrlList(n) == [i \in 1..n |-> Str(<<"u">> \o fmt_int(i))]

\* The requests tried. image_url is only read when image_urls is empty, and
\* bounding_boxes are not read when detection is on, so those fields are
\* varied less there.
Requests ==
    {r \in [image_url : {NONE, "single"},
            image_urls : {UrlList(n) : n \in 0..MaxImages},
            bounding_boxes : SeqsUpTo(ExplicitBoxes, MaxBoxes),
            use_detection : BOOLEAN,
            detect_windows_only : BOOLEAN] :
        /\ (r.image_urls # <<>> => r.image_url = NONE)
        /\ (r.use_detection => Len(r.bounding_boxes) <= 1)}

\* CropRequest.get_image_urls; <<>> stands for the raised ValueError
get_image_urls(req) ==
    IF req.image_urls # <<>> THEN req.image_urls
    ELSE IF req.image_url # NONE THEN <<req.image_url>>
    ELSE <<>>

image_urls == get_image_urls(request)

HttpError(code) == [status |-> "error", status_code |-> code]

\* the JSONResponse of crop_image
JobReport ==
    [status |-> "success",
     status_code |-> 200,
     images_processed |-> Len(image_urls),
     saved_count |-> Len(all_saved_files),
     saved_files |-> all_saved_files,
     errors |-> all_errors]

----------------------------------------------------------------------------
(* The request handler *)

JobInit ==
    /\ request \in Requests
    /\ cv2_available \in BOOLEAN
    /\ yolo_available \in BOOLEAN
    /\ pc = "request"
    /\ idx = 0
    /\ image = NoImage
    /\ bounding_boxes = <<>>
    /\ bidx = 0
    /\ window_count = 0
    /\ saved_files = <<>>
    /\ errors = <<>>
    /\ all_saved_files = <<>>
    /\ all_errors = <<>>
    /\ response = [status |-> "none"]
    /\ calls = <<>>
    /\ download_log = <<>>

FnIdle == arg = <<>> /\ ret = <<>> /\ fpc = "off"

\* an HTTPException leaves process_single_image and crop_image ("except
\* HTTPException: raise" in both): the request ends with that status
raise_http(code) ==
    /\ pc' = "responded"
    /\ response' = HttpError(code)

\* process_single_image returns (sf, errs) and crop_image extends its lists
return_image(sf, errs) ==
    /\ all_saved_files' = all_saved_files \o sf
    /\ all_errors' = all_errors \o errs
    /\ idx' = idx + 1
    /\ pc' = "loop"
    /\ image' = NoImage
    /\ bounding_boxes' = <<>>
    /\ bidx' = 0
    /\ window_count' = 0
    /\ saved_files' = <<>>
    /\ errors' = <<>>
    /\ calls' = <<>>

\* crop_image: get_image_urls raised ValueError
crop_image_no_url ==
    /\ UNCHANGED fnvars
    /\ pc = "request"
    /\ image_urls = <<>>
    /\ raise_http(400)
    /\ UNCHANGED <<request, cv2_available, yolo_available, idx, image, bounding_boxes,
                   bidx, window_count, saved_files, errors, all_saved_files,
                   all_errors, calls, download_log>>

\* crop_image up to the loop over image_urls
crop_image_begin ==
    /\ UNCHANGED fnvars
    /\ pc = "request"
    /\ image_urls # <<>>
    /\ pc' = "loop"
    /\ idx' = 0
    /\ all_saved_files' = <<>>
    /\ all_errors' = <<>>
    /\ UNCHANGED <<request, cv2_available, yolo_available, image, bounding_boxes,
                   bidx, window_count, saved_files, errors, response, calls,
                   download_log>>

\* process_single_image: download_image returned an image
download_ok ==
    /\ UNCHANGED fnvars
    /\ pc = "loop"
    /\ idx < Len(image_urls)
    /\ \E img \in ImageSizes : image' = img
    /\ saved_files' = <<>>
    /\ errors' = <<>>
    /\ bounding_boxes' = request.bounding_boxes
    /\ calls' = <<>>
    /\ download_log' = Append(download_log, "ok")
    /\ pc' = "boxes"
    /\ UNCHANGED <<request, cv2_available, yolo_available, idx, bidx, window_count,
                   all_saved_files, all_errors, response>>

\* process_single_image: download_image failed; it wraps every failure in an
\* HTTPException(400), which is re-raised
download_failed ==
    /\ UNCHANGED fnvars
    /\ pc = "loop"
    /\ idx < Len(image_urls)
    /\ download_log' = Append(download_log, "failed")
    /\ raise_http(400)
    /\ UNCHANGED <<request, cv2_available, yolo_available, idx, image, bounding_boxes,
                   bidx, window_count, saved_files, errors, all_saved_files,
                   all_errors, calls>>

\* process_single_image without detection: request.bounding_boxes as they are
use_supplied_boxes ==
    /\ UNCHANGED fnvars
    /\ pc = "boxes"
    /\ ~request.use_detection
    /\ IF bounding_boxes = <<>>
       THEN /\ return_image(saved_files, Append(errors, error("no_boxes", idx, 0)))
       ELSE /\ pc' = "crop"
            /\ bidx' = 0
            /\ window_count' = 0
            /\ UNCHANGED <<idx, image, bounding_boxes, saved_files, errors,
                           all_saved_files, all_errors>>
    /\ UNCHANGED <<request, cv2_available, yolo_available, response, calls, download_log>>

\* detect_objects, windows_only: detect_windows_advanced runs first
run_detect_windows_advanced ==
    /\ UNCHANGED fnvars
    /\ pc = "boxes"
    /\ request.use_detection
    /\ request.detect_windows_only
    /\ \E contours \in SeqsUpTo(Contours, MaxDetections) :
        LET boxes == detect_windows_advanced(image, cv2_available, contours)
        IN  /\ calls' = Append(calls, [detector |-> "advanced", windows_only |-> TRUE,
                                       raw |-> <<>>, result |-> boxes])
            /\ IF found_windows(boxes)
               THEN /\ bounding_boxes' = boxes
                    /\ pc' = "crop"
               ELSE /\ pc' = "yolo"
                    /\ UNCHANGED bounding_boxes
    /\ bidx' = 0
    /\ window_count' = 0
    /\ UNCHANGED <<request, cv2_available, yolo_available, idx, image, saved_files, errors,
                   all_saved_files, all_errors, response, download_log>>

\* detect_objects reaches "from ultralytics import YOLO"
at_model_detector ==
    IF pc = "boxes"
    THEN request.use_detection /\ ~request.detect_windows_only
    ELSE pc = "yolo"

\* detect_objects: the model ran and its detections were turned into boxes
run_yolo ==
    /\ UNCHANGED fnvars
    /\ at_model_detector
    /\ yolo_available
    /\ \E detections \in SeqsUpTo(Detections, MaxDetections) :
        LET boxes == yolo_boxes(image, detections, request.detect_windows_only)
        IN  /\ calls' = Append(calls, [detector |-> "model",
                                       windows_only |-> request.detect_windows_only,
                                       raw |-> detections, result |-> boxes])
            /\ IF boxes = <<>>
               THEN /\ return_image(saved_files,
                                    Append(errors, error("no_objects", idx, 0)))
               ELSE /\ bounding_boxes' = boxes
                    /\ pc' = "crop"
                    /\ bidx' = 0
                    /\ window_count' = 0
                    /\ UNCHANGED <<idx, image, saved_files, errors, all_saved_files,
                                   all_errors>>
    /\ UNCHANGED <<request, cv2_available, yolo_available, response, download_log>>

\* detect_objects: ImportError, turned into HTTPException(400)
yolo_not_installed ==
    /\ UNCHANGED fnvars
    /\ at_model_detector
    /\ ~yolo_available
    /\ calls' = Append(calls, [detector |-> "model",
                               windows_only |-> request.detect_windows_only,
                               raw |-> <<>>, result |-> <<>>])
    /\ raise_http(400)
    /\ UNCHANGED <<request, cv2_available, yolo_available, idx, image, bounding_boxes,
                   bidx, window_count, saved_files, errors, all_saved_files,
                   all_errors, download_log>>

\* detect_objects: the model raised, turned into HTTPException(500)
yolo_failed ==
    /\ UNCHANGED fnvars
    /\ at_model_detector
    /\ yolo_available
    /\ calls' = Append(calls, [detector |-> "model",
                               windows_only |-> request.detect_windows_only,
                               raw |-> <<>>, result |-> <<>>])
    /\ raise_http(500)
    /\ UNCHANGED <<request, cv2_available, yolo_available, idx, image, bounding_boxes,
                   bidx, window_count, saved_files, errors, all_saved_files,
                   all_errors, download_log>>

\* one iteration of "for idx, bbox in enumerate(bounding_boxes)"; save_fails
\* is cropped.save raising, caught like the clamp's HTTPException by the
\* loop's "except Exception"
crop_one_box ==
    /\ UNCHANGED fnvars
    /\ pc = "crop"
    /\ bidx < Len(bounding_boxes)
    /\ \E save_fails \in BOOLEAN :
        LET bbox == bounding_boxes[bidx + 1]
            cropped == crop_bounding_box(image, bbox)
            label == crop_label(bbox, bidx, request.detect_windows_only, window_count)
        IN  IF ~cropped.ok
            THEN /\ errors' = Append(errors, error("crop", idx, bidx + 1))
                 /\ UNCHANGED <<saved_files, window_count>>
            ELSE /\ window_count' = next_window_count(bbox, bidx,
                                        request.detect_windows_only, window_count)
                 /\ IF save_fails
                    THEN /\ errors' = Append(errors, error("crop", idx, bidx + 1))
                         /\ UNCHANGED saved_files
                    ELSE /\ saved_files' = Append(saved_files,
                                artifact(image_urls[idx + 1], idx, bidx, bbox, cropped, label))
                         /\ UNCHANGED errors
    /\ bidx' = bidx + 1
    /\ UNCHANGED <<request, cv2_available, yolo_available, pc, idx, image, bounding_boxes,
                   all_saved_files, all_errors, response, calls, download_log>>

\* the loop over the boxes is over: return saved_files, errors
finish_image ==
    /\ UNCHANGED fnvars
    /\ pc = "crop"
    /\ bidx = Len(bounding_boxes)
    /\ return_image(saved_files, errors)
    /\ UNCHANGED <<request, cv2_available, yolo_available, response, calls, download_log>>

\* crop_image after the loop: the JSON report
respond ==
    /\ UNCHANGED fnvars
    /\ pc = "loop"
    /\ idx = Len(image_urls)
    /\ pc' = "responded"
    /\ response' = JobReport
    /\ UNCHANGED <<request, cv2_available, yolo_available, idx, image, bounding_boxes,
                   bidx, window_count, saved_files, errors, all_saved_files,
                   all_errors, calls, download_log>>

Init == JobInit /\ FnIdle

Next ==
    \/ crop_image_no_url
    \/ crop_image_begin
    \/ download_ok
    \/ download_failed
    \/ use_supplied_boxes
    \/ run_detect_windows_advanced
    \/ run_yolo
    \/ yolo_not_installed
    \/ yolo_failed
    \/ crop_one_box
    \/ finish_image
    \/ respond

Spec == Init /\ [][Next]_vars

----------------------------------------------------------------------------
(* crop_bounding_box on its own: the clamp applied to a box, then to its result *)

JobIdle ==
    /\ request = [image_url |-> NONE, image_urls |-> <<>>, bounding_boxes |-> <<>>,
                  use_detection |-> FALSE, detect_windows_only |-> FALSE]
    /\ cv2_available = FALSE
    /\ yolo_available = FALSE
    /\ pc = "off"
    /\ idx = 0
    /\ image = NoImage
    /\ bounding_boxes = <<>>
    /\ bidx = 0
    /\ window_count = 0
    /\ saved_files = <<>>
    /\ errors = <<>>
    /\ all_saved_files = <<>>
    /\ all_errors = <<>>
    /\ response = [status |-> "none"]
    /\ calls = <<>>
    /\ download_log = <<>>

ClampImages ==
    {[width |-> 100, height |-> 100]}
    \cup {[width |-> w, height |-> h] : w \in 1..MaxSide, h \in 1..MaxSide}

ClampCoords == (-MaxOff..(MaxSide + 1)) \cup {-5, 90}

ClampDims == (-1..(MaxSide + 1)) \cup {20}

ClampBoxes ==
    {BoundingBox(x, y, w, h, NoLabel) :
        x \in ClampCoords, y \in ClampCoords, w \in ClampDims, h \in ClampDims}

ClampInit ==
    /\ JobIdle
    /\ \E img \in ClampImages, b \in ClampBoxes :
        arg = [image |-> img, bbox |-> b, original |-> b]
    /\ ret = <<>>
    /\ fpc = "call"

\* crop_bounding_box(image, bbox)
clamp_call ==
    /\ fpc = "call"
    /\ ret' = crop_bounding_box(arg.image, arg.bbox)
    /\ fpc' = "clamped"
    /\ UNCHANGED <<arg, jobvars>>

\* crop_bounding_box applied to the rectangle it just produced
clamp_again ==
    /\ fpc = "clamped"
    /\ ret.ok
    /\ arg' = [image |-> arg.image,
               bbox |-> BoundingBox(ret.x, ret.y, ret.width, ret.height, arg.bbox.label),
               original |-> arg.bbox]
    /\ ret' = crop_bounding_box(arg'.image, arg'.bbox)
    /\ fpc' = "reclamped"
    /\ UNCHANGED jobvars

ClampNext ==
    \/ clamp_call
    \/ clamp_again

SpecClamp == ClampInit /\ [][ClampNext]_vars

----------------------------------------------------------------------------
(* remove_overlapping_boxes on its own: applied to a list, then to its output *)

\* the boxes the suppressor is tried on: all positive-size boxes of these
\* shapes at these places, as a detector labels them
NmsBoxes ==
    {BoundingBox(x, y, d[1], d[2], WINDOW) :
        x \in {0, 1}, y \in {0, 1}, d \in {<<2, 2>>, <<2, 1>>, <<1, 2>>}}

\* overlap thresholds as (numerator, denominator): 0, 1/3, 1/2 (the one
\* detect_windows_advanced passes) and 1
Thresholds == {<<0, 1>>, <<1, 3>>, <<1, 2>>, <<1, 1>>}

NmsInit ==
    /\ JobIdle
    /\ \E bs \in SeqsUpTo(NmsBoxes, MaxNmsBoxes), t \in Thresholds :
        arg = [boxes |-> bs, overlap_threshold |-> t]
    /\ ret = <<>>
    /\ fpc = "call"

\* remove_overlapping_boxes(boxes, overlap_threshold)
nms_call ==
    /\ fpc = "call"
    /\ ret' = remove_overlapping_boxes(arg.boxes, arg.overlap_threshold)
    /\ fpc' = "filtered"
    /\ UNCHANGED <<arg, jobvars>>

\* remove_overlapping_boxes applied to its own output, same threshold
nms_again ==
    /\ fpc = "filtered"
    /\ arg' = [boxes |-> ret, overlap_threshold |-> arg.overlap_threshold]
    /\ ret' = remove_overlapping_boxes(arg'.boxes, arg'.overlap_threshold)
    /\ fpc' = "refiltered"
    /\ UNCHANGED jobvars

NmsNext ==
    \/ nms_call
    \/ nms_again

SpecNms == NmsInit /\ [][NmsNext]_vars

----------------------------------------------------------------------------
(* Properties *)

Count(seq, P(_)) == Cardinality({i \in 1..Len(seq) : P(seq[i])})

Rect(r) == [x |-> r.x, y |-> r.y, width |-> r.width, height |-> r.height]

\* the request ended, and not by a detector's HTTPException nor for want of a URL
EndedByDownloadsOnly ==
    /\ pc = "responded"
    /\ image_urls # <<>>
    /\ response.status = "error" =>
        (download_log # <<>> /\ download_log[Len(download_log)] = "failed")

FailedPositions == {i \in 1..Len(download_log) : download_log[i] = "failed"}

\* C1: a job of N image URLs of which M fail to download still completes
\* with a report: images_processed = N, every image was attempted, the
\* errors hold exactly one download-tagged entry per failed position, and
\* the artifacts come only from images that downloaded.
C1_DownloadFailuresAreIsolated ==
    EndedByDownloadsOnly =>
        /\ response.status = "success"
        /\ response.images_processed = Len(image_urls)
        /\ Len(download_log) = Len(image_urls)
        /\ \A p \in FailedPositions :
            Count(response.errors, LAMBDA e : e.kind = "download" /\ e.image = p) = 1
        /\ Count(response.errors, LAMBDA e : e.kind = "download")
            = Cardinality(FailedPositions)
        /\ \A i \in 1..Len(response.saved_files) :
            response.saved_files[i].image_index \notin FailedPositions

\* C2: detection requested, neither detector available, no explicit boxes,
\* every image downloaded: the report has status "success", no artifact,
\* and one no-boxes error per image, in image order.
C2_NoDetectorStillSucceeds ==
    ( /\ pc = "responded"
      /\ image_urls # <<>>
      /\ request.use_detection
      /\ ~cv2_available
      /\ ~yolo_available
      /\ request.bounding_boxes = <<>>
      /\ FailedPositions = {} ) =>
        /\ response.status = "success"
        /\ response.saved_count = 0
        /\ response.saved_files = <<>>
        /\ Len(response.errors) = Len(image_urls)
        /\ \A i \in 1..Len(response.errors) :
            /\ response.errors[i].kind \in {"no_boxes", "no_objects"}
            /\ response.errors[i].image = i

\* the clamped width or height of box j of the current image is <= 0
ClampRejects(j) ==
    LET b == bounding_boxes[j]
    IN  \/ Min(b.width, image.width - Max(0, b.x)) <= 0
        \/ Min(b.height, image.height - Max(0, b.y)) <= 0

ErrorPositions == {errors[i].box : i \in 1..Len(errors)}

\* positions 1..bidx that left no error, in increasing order
KeptPositions == SelectSeq([j \in 1..bidx |-> j], LAMBDA j : j \notin ErrorPositions)

\* C3: in the box loop of process_single_image, every box visited so far
\* left either one artifact or one error naming its 1-based position, a box
\* the clamp rejects left an error, no rejection stopped the loop (after the
\* loop artifacts + errors = K), and the artifacts are in the order of
\* their boxes.
C3_BoxErrorsNeverAbortTheBatch ==
    pc = "crop" =>
        /\ bidx <= Len(bounding_boxes)
        /\ Len(saved_files) + Len(errors) = bidx
        /\ \A i \in 1..Len(errors) :
            /\ errors[i].kind = "crop"
            /\ errors[i].image = idx + 1
            /\ errors[i].box \in 1..bidx
        /\ \A j \in 1..bidx :
            Count(errors, LAMBDA e : e.box = j) <= 1
        /\ \A j \in 1..bidx :
            ClampRejects(j) => Count(errors, LAMBDA e : e.box = j) = 1
        /\ Len(KeptPositions) = Len(saved_files)
        /\ \A k \in 1..Len(saved_files) :
            saved_files[k].bbox = Rect(bounding_boxes[KeptPositions[k]])

\* a rejected box was followed by a box that was cropped, and the loop is over
C3_Witness ==
    /\ pc = "crop"
    /\ bidx = Len(bounding_boxes)
    /\ bidx >= 2
    /\ ClampRejects(1)
    /\ 1 \in ErrorPositions
    /\ 2 \notin ErrorPositions
    /\ Len(saved_files) = 1

\* C4: with windows-only mode the primitive detector is called first; if it
\* returns boxes they are the result and the model is not called; the model
\* is called only after the primitive detector returned none, and then with
\* the window filter (survivors pass it and are labelled "window"). Without
\* windows-only mode only the model is called and its detections are the
\* result as they are, native labels included.
C4_DetectorFallbackOrder ==
    /\ Len(calls) <= 2
    /\ pc = "yolo" =>
        calls = <<[detector |-> "advanced", windows_only |-> TRUE,
                   raw |-> <<>>, result |-> <<>>]>>
    /\ (calls # <<>> /\ request.detect_windows_only) =>
        /\ calls[1].detector = "advanced"
        /\ (calls[1].result # <<>> =>
                /\ Len(calls) = 1
                /\ pc = "crop"
                /\ bounding_boxes = calls[1].result)
        /\ (Len(calls) = 2 =>
                /\ calls[1].result = <<>>
                /\ calls[2].detector = "model"
                /\ calls[2].windows_only
                /\ \A i \in 1..Len(calls[2].result) :
                    /\ calls[2].result[i].label = WINDOW
                    /\ \E d \in Range(calls[2].raw) :
                        /\ Rect(d) = Rect(calls[2].result[i])
                        /\ 3 * d.height <= 10 * d.width
                        /\ d.width <= 3 * d.height
                /\ (pc = "crop" => bounding_boxes = calls[2].result))
    /\ (calls # <<>> /\ ~request.detect_windows_only) =>
        /\ Len(calls) = 1
        /\ calls[1].detector = "model"
        /\ ~calls[1].windows_only
        /\ calls[1].result = calls[1].raw
        /\ (pc = "crop" => bounding_boxes = calls[1].raw)

\* the primitive detector found nothing and the model's filtered boxes are used
C4_Witness ==
    /\ pc = "crop"
    /\ request.detect_windows_only
    /\ Len(calls) = 2
    /\ calls[2].result # <<>>
    /\ bounding_boxes = calls[2].result

\* intersection over union of a and b is greater than thr[1] / thr[2]
IoUGreater(a, b, thr) ==
    LET iw == Max(0, Min(a.x + a.width, b.x + b.width) - Max(a.x, b.x))
        ih == Max(0, Min(a.y + a.height, b.y + b.height) - Max(a.y, b.y))
        inter == iw * ih
        union == a.width * a.height + b.width * b.height - inter
    IN  union > 0 /\ inter * thr[2] > thr[1] * union

\* C5: the output of remove_overlapping_boxes holds only boxes of its input,
\* each at most as often as the input does, and no two boxes at different
\* places of the output have IoU greater than the threshold.
C5_SuppressorSubsetAndNoOverlap ==
    fpc = "filtered" =>
        /\ \A b \in Range(ret) :
            /\ b \in Range(arg.boxes)
            /\ Count(ret, LAMBDA o : o = b) <= Count(arg.boxes, LAMBDA o : o = b)
        /\ \A i, j \in 1..Len(ret) :
            i # j => ~IoUGreater(ret[i], ret[j], arg.overlap_threshold)

\* something was suppressed and at least two boxes survived
C5_Witness ==
    /\ fpc = "filtered"
    /\ Len(ret) >= 2
    /\ Len(ret) < Len(arg.boxes)

\* C6: remove_overlapping_boxes applied to its own output (same threshold)
\* returns the same boxes in the same order.
C6_SuppressorIdempotent ==
    fpc = "refiltered" => ret = arg.boxes

\* the second pass ran on an output with two different boxes of equal area
C6_Witness ==
    /\ fpc = "refiltered"
    /\ \E i, j \in 1..Len(arg.boxes) :
        /\ i < j
        /\ arg.boxes[i] # arg.boxes[j]
        /\ box_area(arg.boxes[i]) = box_area(arg.boxes[j])

ScenarioImage == [width |-> 100, height |-> 100]

ScenarioBox == BoundingBox(-5, -5, 20, 20, NoLabel)

\* C7 as stated: {x:-5, y:-5, width:20, height:20} against 100x100 clamps
\* to {0, 0, 15, 15}, and a box with negative x or y is clamped to the part
\* of it that lies inside the image.
C7_ClampIsIntersection ==
    (fpc = "clamped" /\ ret.ok /\ (arg.bbox.x < 0 \/ arg.bbox.y < 0)) =>
        /\ (arg.image = ScenarioImage /\ arg.bbox = ScenarioBox) =>
            Rect(ret) = [x |-> 0, y |-> 0, width |-> 15, height |-> 15]
        /\ ret.x = Max(0, arg.bbox.x)
        /\ ret.y = Max(0, arg.bbox.y)
        /\ ret.x + ret.width = Min(arg.bbox.x + arg.bbox.width, arg.image.width)
        /\ ret.y + ret.height = Min(arg.bbox.y + arg.bbox.height, arg.image.height)

\* C7 amended: the scenario clamps to {0, 0, 20, 20}; a box with negative x
\* or y has that coordinate moved to 0 and keeps its supplied width and
\* height, cut only where they exceed what the image has right of / below
\* the moved origin.
C7_ClampMovesOrigin ==
    (fpc = "clamped" /\ ret.ok /\ (arg.bbox.x < 0 \/ arg.bbox.y < 0)) =>
        /\ (arg.image = ScenarioImage /\ arg.bbox = ScenarioBox) =>
            Rect(ret) = [x |-> 0, y |-> 0, width |-> 20, height |-> 20]
        /\ arg.bbox.x < 0 => ret.x = 0
        /\ arg.bbox.y < 0 => ret.y = 0
        /\ arg.bbox.x >= 0 => ret.x = arg.bbox.x
        /\ arg.bbox.y >= 0 => ret.y = arg.bbox.y
        /\ IF arg.bbox.width <= arg.image.width - ret.x
           THEN ret.width = arg.bbox.width
           ELSE ret.width = arg.image.width - ret.x
        /\ IF arg.bbox.height <= arg.image.height - ret.y
           THEN ret.height = arg.bbox.height
           ELSE ret.height = arg.image.height - ret.y

\* the scenario's box was clamped against the scenario's image
C7_Witness ==
    /\ fpc = "clamped"
    /\ arg.image = ScenarioImage
    /\ arg.bbox = ScenarioBox
    /\ ret.ok

\* C8: a rectangle the clamp produced has x >= 0, y >= 0, width > 0,
\* height > 0 and lies inside the image, and clamping it again against the
\* same image succeeds with the identical x, y, width and height.
C8_ClampIdempotent ==
    /\ (fpc = "clamped" /\ ret.ok) =>
        /\ ret.x >= 0
        /\ ret.y >= 0
        /\ ret.width > 0
        /\ ret.height > 0
        /\ ret.x + ret.width <= arg.image.width
        /\ ret.y + ret.height <= arg.image.height
    /\ fpc = "reclamped" =>
        /\ ret.ok
        /\ Rect(ret) = Rect(arg.bbox)

\* the second clamp ran on a rectangle the first clamp had moved and cut
C8_Witness ==
    /\ fpc = "reclamped"
    /\ arg.original.x < 0
    /\ arg.original.width > arg.bbox.width
    /\ arg.original.y + arg.original.height > arg.image.height

\* C9: two image URLs, detection off, windows-only off, one unlabeled
\* explicit box valid for both images, nothing failed: the report holds
\* exactly the artifacts img1_001_crop_1.jpg and img2_001_crop_1.jpg.
C9_EveryFilenameEmbedsImageIndex ==
    ( /\ pc = "responded"
      /\ request.image_urls = UrlList(2)
      /\ ~request.use_detection
      /\ ~request.detect_windows_only
      /\ request.bounding_boxes = <<BoundingBox(10, 10, 50, 50, NoLabel)>>
      /\ response.status = "success"
      /\ response.errors = <<>> ) =>
        /\ Len(response.saved_files) = 2
        /\ response.saved_files[1].filename = "img1_001_crop_1.jpg"
        /\ response.saved_files[2].filename = "img2_001_crop_1.jpg"

\* C10: every artifact of the current image records the box used for the
\* crop: its bbox lies within the image and has the artifact's dimensions.
C10_ArtifactRecordsClampedBox ==
    pc = "crop" =>
        \A k \in 1..Len(saved_files) :
            LET a == saved_files[k]
            IN  /\ a.bbox.x >= 0
                /\ a.bbox.y >= 0
                /\ a.bbox.x + a.bbox.width <= image.width
                /\ a.bbox.y + a.bbox.height <= image.height
                /\ a.bbox.width = a.dimensions.width
                /\ a.bbox.height = a.dimensions.height

----------------------------------------------------------------------------
(* The two window filters on their own: one candidate, both tests *)

\* image sizes and bounding widths / heights the filters are tried on; they
\* include candidates of exactly 0.5% and exactly 90% of the image area and
\* of aspect ratio exactly 0.3 and 3.0
FilterImages ==
    {[width |-> 100, height |-> 100], [width |-> 20, height |-> 10],
     [width |-> 10, height |-> 10]}

FilterSides == {1, 2, 3, 5, 9, 10, 18, 20, 30, 50, 90, 100}

FilterInit ==
    /\ JobIdle
    /\ \E img \in FilterImages, w \in FilterSides, h \in FilterSides :
        arg = [image |-> img, width |-> w, height |-> h]
    /\ ret = [model |-> NONE, primitive |-> NONE]
    /\ fpc = "call"

\* detect_objects, windows_only: the test on a detection of that width and height
filter_model ==
    /\ fpc = "call"
    /\ ret' = [ret EXCEPT !.model =
                 yolo_is_window(arg.image,
                                BoundingBox(0, 0, arg.width, arg.height, NoLabel))]
    /\ fpc' = "model_done"
    /\ UNCHANGED <<arg, jobvars>>

\* detect_windows_advanced: the test on a four-cornered contour that fills
\* its bounding rectangle of that width and height (contourArea = w * h)
filter_primitive ==
    /\ fpc = "model_done"
    /\ ret' = [ret EXCEPT !.primitive =
                 contour_is_window(arg.image,
                                   [area |-> arg.width * arg.height, x |-> 0, y |-> 0,
                                    w |-> arg.width, h |-> arg.height, vertices |-> 4])]
    /\ fpc' = "both_done"
    /\ UNCHANGED <<arg, jobvars>>

FilterNext ==
    \/ filter_model
    \/ filter_primitive

SpecFilter == FilterInit /\ [][FilterNext]_vars

\* the candidate's aspect ratio is in [0.3, 3.0] and its area within the
\* closed range [0.5%, 90%] of the image area
InClosedWindowRange ==
    LET area == arg.width * arg.height
        img_area == arg.image.width * arg.image.height
    IN  /\ 10 * arg.width >= 3 * arg.height
        /\ arg.width <= 3 * arg.height
        /\ 1000 * area >= 5 * img_area
        /\ 10 * area <= 9 * img_area

\* C11: in windows-only mode the model path keeps a candidate exactly when
\* the primitive path's area and aspect-ratio test keeps it, namely when its
\* aspect ratio is in [0.3, 3.0] and its area in the closed range
\* [0.5%, 90%] of the image area.
C11_ModelFilterSameAsPrimitive ==
    fpc = "both_done" =>
        /\ ret.model = ret.primitive
        /\ ret.model = InClosedWindowRange

\* all filenames of the job so far, those of the image in progress included
JobFilenames ==
    [k \in 1..(Len(all_saved_files) + Len(saved_files)) |->
        (all_saved_files \o saved_files)[k].filename]

\* C12: within one job no two artifacts have the same filename.
C12_FilenamesDistinct ==
    \A i, j \in 1..Len(JobFilenames) :
        i # j => JobFilenames[i] # JobFilenames[j]

\* the report holds artifacts of two images made from the same box position
\* and the same label
C12_Witness ==
    /\ pc = "responded"
    /\ response.status = "success"
    /\ \E i, j \in 1..Len(response.saved_files) :
        /\ response.saved_files[i].image_index # response.saved_files[j].image_index
        /\ response.saved_files[i].label = response.saved_files[j].label
        /\ response.saved_files[i].bbox = response.saved_files[j].bbox
    /\ \E i, j \in 1..Len(response.saved_files) :
        /\ i # j
        /\ response.saved_files[i].image_index = response.saved_files[j].image_index

====
